---- MODULE Spec2Model ----
(***************************************************************************)
(* Model of skills/mermaid/scripts/validate_mermaid.py: the diagram type   *)
(* detector, the mmdc error-line extractor, validate_diagram with its two  *)
(* temporary files and its renderer subprocess, and main with its exit     *)
(* codes.  A Python str is a sequence of one-character strings.            *)
(***************************************************************************)
EXTENDS Integers, Sequences, FiniteSets, TLC

VARIABLES
    argv,         \* shape of sys.argv[1:]: "none", "stdin" or "file"
    content,      \* the diagram text read by main (NoContent before the read)
    pc,           \* position of the process in main / validate_diagram
    disk,         \* temporary files that exist in the temp directory
    created,      \* temporary files this call has created
    temp_input,   \* local temp_input of validate_diagram (None or a name)
    temp_output,  \* local temp_output of validate_diagram (None or a name)
    retval,       \* value of the pending return statement while finally runs
    vd_state,     \* validate_diagram: "not_called", "running", "returned", "raised"
    result,       \* the dict validate_diagram returned to main
    run_outcome,  \* how subprocess.run ended ("none" while not run)
    proc_stderr,  \* result.stderr of the renderer
    run_message,  \* str(e) of the exception subprocess.run raised
    sub_calls,    \* number of subprocess.run invocations
    stdout,       \* what main printed to sys.stdout
    stderr_out,   \* what was printed to sys.stderr
    exit_code,    \* process exit code (Running before the exit)
    fn_pc,        \* position of the pure-function harness
    det_content,  \* argument of detect_diagram_type
    det_type,     \* value detect_diagram_type returned
    err_stderr,   \* argument of parse_mmdc_errors
    err_once,     \* parse_mmdc_errors(err_stderr)
    err_twice     \* parse_mmdc_errors of err_once joined with newlines

main_vars == <<argv, content, pc, disk, created, temp_input, temp_output,
               retval, vd_state, result, run_outcome, proc_stderr, run_message,
               sub_calls, stdout, stderr_out, exit_code>>
fn_vars == <<fn_pc, det_content, det_type, err_stderr, err_once, err_twice>>
vars == <<main_vars, fn_vars>>

-----------------------------------------------------------------------------
(* Bounds of the explored inputs *)

MaxLines == 3

MaxErrLines == 3

-----------------------------------------------------------------------------
(* Python str primitives *)

LowerCase ==
    <<"a", "b", "c", "d", "e", "f", "g", "h", "i", "j", "k", "l", "m",
      "n", "o", "p", "q", "r", "s", "t", "u", "v", "w", "x", "y", "z">>

UpperCase ==
    <<"A", "B", "C", "D", "E", "F", "G", "H", "I", "J", "K", "L", "M",
      "N", "O", "P", "Q", "R", "S", "T", "U", "V", "W", "X", "Y", "Z">>

\* characters str.strip() removes
Whitespace == {" ", "\t", "\n", "\r", "\f"}

ToLower(c) ==
    IF \E i \in 1..26 : UpperCase[i] = c
    THEN LowerCase[CHOOSE i \in 1..26 : UpperCase[i] = c]
    ELSE c

ToUpper(c) ==
    IF \E i \in 1..26 : LowerCase[i] = c
    THEN UpperCase[CHOOSE i \in 1..26 : LowerCase[i] = c]
    ELSE c

\* str.lower()
lower(s) == [i \in 1..Len(s) |-> ToLower(s[i])]

\* str.upper()
upper(s) == [i \in 1..Len(s) |-> ToUpper(s[i])]

RECURSIVE lstrip(_)
lstrip(s) ==
    IF s # <<>> /\ Head(s) \in Whitespace THEN lstrip(Tail(s)) ELSE s

RECURSIVE rstrip(_)
rstrip(s) ==
    IF s # <<>> /\ s[Len(s)] \in Whitespace
    THEN rstrip(SubSeq(s, 1, Len(s) - 1))
    ELSE s

\* str.strip()
strip(s) == rstrip(lstrip(s))

\* str.split(sep) for a one-character sep: always at least one piece
RECURSIVE split_from(_, _, _, _)
split_from(s, sep, i, piece) ==
    IF i > Len(s) THEN <<piece>>
    ELSE IF s[i] = sep THEN <<piece>> \o split_from(s, sep, i + 1, <<>>)
    ELSE split_from(s, sep, i + 1, Append(piece, s[i]))

split(s, sep) == split_from(s, sep, 1, <<>>)

\* str.replace(ch, '') for a one-character ch
remove(s, ch) == SelectSeq(s, LAMBDA c : c # ch)

\* sub in s
contains(sub, s) ==
    \E i \in 0..(Len(s) - Len(sub)) : SubSeq(s, i + 1, i + Len(sub)) = sub

\* str.startswith(ch) for a one-character ch
startswith(s, ch) == s # <<>> /\ s[1] = ch

\* sep.join(parts)
RECURSIVE join(_, _)
join(parts, sep) ==
    IF parts = <<>> THEN <<>>
    ELSE IF Len(parts) = 1 THEN parts[1]
    ELSE parts[1] \o <<sep>> \o join(Tail(parts), sep)

-----------------------------------------------------------------------------
(* detect_diagram_type *)

type_map ==
    <<[keyword |-> <<"g", "r", "a", "p", "h">>,
       diagram_type |-> "flowchart"],
      [keyword |-> <<"f", "l", "o", "w", "c", "h", "a", "r", "t">>,
       diagram_type |-> "flowchart"],
      [keyword |-> <<"s", "e", "q", "u", "e", "n", "c", "e", "d", "i", "a", "g", "r", "a", "m">>,
       diagram_type |-> "sequence"],
      [keyword |-> <<"c", "l", "a", "s", "s", "d", "i", "a", "g", "r", "a", "m">>,
       diagram_type |-> "class"],
      [keyword |-> <<"s", "t", "a", "t", "e", "d", "i", "a", "g", "r", "a", "m">>,
       diagram_type |-> "state"],
      [keyword |-> <<"e", "r", "d", "i", "a", "g", "r", "a", "m">>,
       diagram_type |-> "er"],
      [keyword |-> <<"g", "a", "n", "t", "t">>,
       diagram_type |-> "gantt"],
      [keyword |-> <<"g", "i", "t", "g", "r", "a", "p", "h">>,
       diagram_type |-> "git-graph"],
      [keyword |-> <<"j", "o", "u", "r", "n", "e", "y">>,
       diagram_type |-> "user-journey"],
      [keyword |-> <<"p", "i", "e">>,
       diagram_type |-> "pie"],
      [keyword |-> <<"m", "i", "n", "d", "m", "a", "p">>,
       diagram_type |-> "mindmap"],
      [keyword |-> <<"t", "i", "m", "e", "l", "i", "n", "e">>,
       diagram_type |-> "timeline"],
      [keyword |-> <<"q", "u", "a", "d", "r", "a", "n", "t", "c", "h", "a", "r", "t">>,
       diagram_type |-> "quadrant"]>>

\* a wrong first_line: the whole stripped text instead of its first line
first_line_whole_text(text) ==
    IF strip(text) # <<>> THEN lower(strip(text)) ELSE <<>>

first_line(text) ==
    IF strip(text) # <<>> THEN lower(split(strip(text), "\n")[1]) ELSE <<>>

\* the for loop over type_map.items(), from entry i on
RECURSIVE detect_loop(_, _)
detect_loop(line, i) ==
    IF i > Len(type_map) THEN "unknown"
    ELSE IF contains(type_map[i].keyword, remove(remove(line, " "), "-"))
    THEN type_map[i].diagram_type
    ELSE detect_loop(line, i + 1)

detect_diagram_type(text) == detect_loop(first_line(text), 1)

-----------------------------------------------------------------------------
(* parse_mmdc_errors *)

error_keywords ==
    <<<<"e", "r", "r", "o", "r">>,
      <<"p", "a", "r", "s", "e">>,
      <<"s", "y", "n", "t", "a", "x">>,
      <<"i", "n", "v", "a", "l", "i", "d">>,
      <<"u", "n", "e", "x", "p", "e", "c", "t", "e", "d">>>>

FallbackMsg ==
    <<"S", "y", "n", "t", "a", "x", " ", "e", "r", "r", "o", "r", " ", "i", "n", " ", "d", "i", "a", "g", "r", "a", "m">>

\* any(keyword in line_lower for keyword in [...])
any_keyword(line_lower) ==
    \E k \in 1..Len(error_keywords) : contains(error_keywords[k], line_lower)

\* a wrong filter: annotation lines are not excluded
appends_line_keeping_parens(line) ==
    /\ any_keyword(lower(line))
    /\ strip(line) # <<>>

\* a wrong filter: the "(" test looks at the untrimmed line
appends_line_testing_raw(line) ==
    /\ any_keyword(lower(line))
    /\ strip(line) # <<>>
    /\ ~startswith(line, "(")

\* the two nested ifs of the loop body: is line.strip() appended
appends_line(line) ==
    /\ any_keyword(lower(line))
    /\ strip(line) # <<>>
    /\ ~startswith(strip(line), "(")

\* the for loop over stderr.split('\n'), from line i on
RECURSIVE parse_loop(_, _, _)
parse_loop(lines, i, errors) ==
    IF i > Len(lines) THEN errors
    ELSE parse_loop(lines, i + 1,
                    IF appends_line(lines[i])
                    THEN Append(errors, strip(lines[i]))
                    ELSE errors)

parse_mmdc_errors(stderr) ==
    LET errors == parse_loop(split(stderr, "\n"), 1, <<>>)
    IN  IF errors # <<>> THEN errors ELSE <<FallbackMsg>>

-----------------------------------------------------------------------------
(* validate_diagram *)

EmptyMsg ==
    <<"E", "m", "p", "t", "y", " ", "d", "i", "a", "g", "r", "a", "m", " ", "c", "o", "n", "t", "e", "n", "t">>

TimeoutMsg ==
    <<"V", "a", "l", "i", "d", "a", "t", "i", "o", "n", " ", "t", "i", "m", "e", "o", "u", "t", " ", "(", "d", "i", "a", "g", "r", "a", "m", " ", "t", "o", "o", " ", "c", "o", "m", "p", "l", "e", "x", " ", "o", "r", " ", "i", "n", "f", "i", "n", "i", "t", "e", " ", "l", "o", "o", "p", ")">>

NpxMsg ==
    <<"m", "e", "r", "m", "a", "i", "d", "-", "c", "l", "i", " ", "n", "o", "t", " ", "a", "v", "a", "i", "l", "a", "b", "l", "e", " ", "-", " ", "n", "p", "x", " ", "c", "o", "m", "m", "a", "n", "d", " ", "n", "o", "t", " ", "f", "o", "u", "n", "d">>

ValidationErrorPrefix ==
    <<"V", "a", "l", "i", "d", "a", "t", "i", "o", "n", " ", "e", "r", "r", "o", "r", ":", " ">>

None == "None"

\* names NamedTemporaryFile gives the two files of one call
InputName == "tmp.mmd"

OutputName == "tmp.svg"

\* value of result before validate_diagram has returned
NoResult ==
    [valid |-> FALSE, errors |-> <<>>, warnings |-> <<>>,
     diagram_type |-> "no result"]

\* a wrong emptiness test: only "not content"
is_empty_no_strip(text) == text = <<>>

\* not content or not content.strip()
is_empty(text) == text = <<>> \/ strip(text) = <<>>

EmptyResult ==
    [valid |-> FALSE, errors |-> <<EmptyMsg>>, warnings |-> <<>>,
     diagram_type |-> "unknown"]

\* a wrong result: the errors of a failed render are never filled in
normal_result_no_errors(returncode, stderr, text) ==
    [valid |-> (returncode = 0), errors |-> <<>>, warnings |-> <<>>,
     diagram_type |-> detect_diagram_type(text)]

\* the dict built after subprocess.run completed
normal_result(returncode, stderr, text) ==
    [valid |-> (returncode = 0),
     errors |-> IF returncode # 0 THEN parse_mmdc_errors(stderr) ELSE <<>>,
     warnings |-> <<>>,
     diagram_type |-> detect_diagram_type(text)]

\* the dict returned by the except clause that catches exception class exc
except_result(exc, msg, text) ==
    [valid |-> FALSE,
     errors |-> IF exc = "TimeoutExpired" THEN <<TimeoutMsg>>
                ELSE IF exc = "FileNotFoundError" THEN <<NpxMsg>>
                ELSE <<ValidationErrorPrefix \o msg>>,
     warnings |-> <<>>,
     diagram_type |-> detect_diagram_type(text)]

-----------------------------------------------------------------------------
(* Inputs and environment outcomes explored *)

Running == -1

FilePath == <<"/", "x", ".", "m", "m", "d">>

ArgvShapes == {"none", "stdin", "file"}

\* diagram texts that main reads
Contents ==
    {<<>>,
     <<" ", "\t">>,
     <<"\n">>,
     <<"g", "r", "a", "p", "h", " ", "T", "D", "\n", "A", "-", "-", ">", "B">>,
     <<"p", "i", "e">>,
     <<"f", "o", "o">>}

\* texts the renderer leaves on its standard error
RendererStderr ==
    {<<>>,
     <<"a", "t", " ", "f", "o", "o", ".", "j", "s", ":", "1">>,
     <<"E", "r", "r", "o", "r", ":", " ", "b", "a", "d", " ", "t", "o", "k", "e", "n", "\n",
       "(", "e", "r", "r", "o", "r", ")", " ", "n", "o", "i", "s", "e">>}

ReturnCodes == {0, 1}

\* str(e) of an exception
ExcMessages == {<<>>, <<"b", "o", "o", "m">>}

\* classes of the exceptions NamedTemporaryFile raises, as the except
\* clauses tell them apart (tempfile raises FileNotFoundError when no
\* temporary directory is usable)
CreateFailures == {"FileNotFoundError", "Exception"}

-----------------------------------------------------------------------------
(* main: reading the input *)

FileNotFoundPrefix ==
    <<"F", "i", "l", "e", " ", "n", "o", "t", " ", "f", "o", "u", "n", "d", ":", " ">>

ReadErrorPrefix ==
    <<"E", "r", "r", "o", "r", " ", "r", "e", "a", "d", "i", "n", "g", " ", "f", "i", "l", "e", ":", " ">>

FnIdle ==
    /\ fn_pc = "idle"
    /\ det_content = <<>>
    /\ det_type = "none"
    /\ err_stderr = <<>>
    /\ err_once = <<>>
    /\ err_twice = <<>>

Init ==
    /\ argv \in ArgvShapes
    /\ content = <<>>
    /\ pc = "start"
    /\ disk = {}
    /\ created = {}
    /\ temp_input = None
    /\ temp_output = None
    /\ retval = NoResult
    /\ vd_state = "not_called"
    /\ result = NoResult
    /\ run_outcome = "none"
    /\ proc_stderr = <<>>
    /\ run_message = <<>>
    /\ sub_calls = 0
    /\ stdout = <<>>
    /\ stderr_out = <<>>
    /\ exit_code = Running
    /\ FnIdle

\* sys.exit(code) after printing entry on sys.stderr, before any validation
ExitEarly(code, entry) ==
    /\ stderr_out' = Append(stderr_out, entry)
    /\ exit_code' = code
    /\ pc' = "done"
    /\ UNCHANGED <<argv, content, disk, created, temp_input, temp_output,
                   retval, vd_state, result, run_outcome, proc_stderr, run_message,
                   sub_calls, stdout>>
    /\ UNCHANGED fn_vars

\* content is bound and main goes on to call validate_diagram
ReadDone(text) ==
    /\ content' = text
    /\ pc' = "call"
    /\ UNCHANGED <<argv, disk, created, temp_input, temp_output, retval,
                   vd_state, result, run_outcome, proc_stderr, run_message, sub_calls,
                   stdout, stderr_out, exit_code>>
    /\ UNCHANGED fn_vars

MainUsage ==
    /\ pc = "start"
    /\ argv = "none"
    /\ ExitEarly(2, [kind |-> "usage", errors |-> <<>>])

MainReadStdin ==
    /\ pc = "start"
    /\ argv = "stdin"
    /\ \E text \in Contents : ReadDone(text)

\* sys.stdin.read() raises (undecodable bytes): nothing catches it
MainReadStdinRaises ==
    /\ pc = "start"
    /\ argv = "stdin"
    /\ ExitEarly(1, [kind |-> "traceback", errors |-> <<>>])

MainReadFile ==
    /\ pc = "start"
    /\ argv = "file"
    /\ \E text \in Contents : ReadDone(text)

MainFileNotFound ==
    /\ pc = "start"
    /\ argv = "file"
    /\ ExitEarly(2, [kind |-> "json",
                     errors |-> <<FileNotFoundPrefix \o FilePath>>])

MainFileUnreadable ==
    /\ pc = "start"
    /\ argv = "file"
    /\ \E msg \in ExcMessages :
          ExitEarly(2, [kind |-> "json", errors |-> <<ReadErrorPrefix \o msg>>])

-----------------------------------------------------------------------------
(* validate_diagram: one action per step and outcome *)

\* the try block is left with value as the pending return; finally runs next
EnterFinally(value) ==
    /\ retval' = value
    /\ pc' = "finally_input"

VdEmpty ==
    /\ pc = "call"
    /\ is_empty(content)
    /\ vd_state' = "returned"
    /\ result' = EmptyResult
    /\ pc' = "print"
    /\ UNCHANGED <<argv, content, disk, created, temp_input, temp_output,
                   retval, run_outcome, proc_stderr, run_message, sub_calls, stdout,
                   stderr_out, exit_code>>
    /\ UNCHANGED fn_vars

\* NamedTemporaryFile(mode='w', suffix='.mmd', delete=False) succeeds
VdCreateInput ==
    /\ pc = "call"
    /\ ~is_empty(content)
    /\ vd_state' = "running"
    /\ disk' = disk \cup {InputName}
    /\ created' = created \cup {InputName}
    /\ pc' = "write"
    /\ UNCHANGED <<argv, content, temp_input, temp_output, retval, result,
                   run_outcome, proc_stderr, run_message, sub_calls, stdout, stderr_out,
                   exit_code>>
    /\ UNCHANGED fn_vars

\* NamedTemporaryFile raises: no file was made
VdCreateInputFails ==
    /\ pc = "call"
    /\ ~is_empty(content)
    /\ vd_state' = "running"
    /\ \E exc \in CreateFailures, msg \in ExcMessages :
          EnterFinally(except_result(exc, msg, content))
    /\ UNCHANGED <<argv, content, disk, created, temp_input, temp_output,
                   result, run_outcome, proc_stderr, run_message, sub_calls, stdout,
                   stderr_out, exit_code>>
    /\ UNCHANGED fn_vars

\* f.write(content); temp_input = f.name; the with block closes the file
VdWriteInput ==
    /\ pc = "write"
    /\ temp_input' = InputName
    /\ pc' = "create_output"
    /\ UNCHANGED <<argv, content, disk, created, temp_output, retval,
                   vd_state, result, run_outcome, proc_stderr, run_message, sub_calls,
                   stdout, stderr_out, exit_code>>
    /\ UNCHANGED fn_vars

\* f.write(content) raises (text the file's encoding cannot encode):
\* the with block closes the file, temp_input was not yet assigned
VdWriteInputFails ==
    /\ pc = "write"
    /\ \E msg \in ExcMessages :
          EnterFinally(except_result("Exception", msg, content))
    /\ UNCHANGED <<argv, content, disk, created, temp_input, temp_output,
                   vd_state, result, run_outcome, proc_stderr, run_message, sub_calls,
                   stdout, stderr_out, exit_code>>
    /\ UNCHANGED fn_vars

\* the flush at the end of the with block raises (device full):
\* temp_input was already assigned
VdCloseInputFails ==
    /\ pc = "write"
    /\ temp_input' = InputName
    /\ \E msg \in ExcMessages :
          EnterFinally(except_result("Exception", msg, content))
    /\ UNCHANGED <<argv, content, disk, created, temp_output, vd_state,
                   result, run_outcome, proc_stderr, run_message, sub_calls, stdout,
                   stderr_out, exit_code>>
    /\ UNCHANGED fn_vars

\* NamedTemporaryFile(suffix='.svg', delete=False); temp_output = f.name
VdCreateOutput ==
    /\ pc = "create_output"
    /\ disk' = disk \cup {OutputName}
    /\ created' = created \cup {OutputName}
    /\ temp_output' = OutputName
    /\ pc' = "run"
    /\ UNCHANGED <<argv, content, temp_input, retval, vd_state, result,
                   run_outcome, proc_stderr, run_message, sub_calls, stdout, stderr_out,
                   exit_code>>
    /\ UNCHANGED fn_vars

VdCreateOutputFails ==
    /\ pc = "create_output"
    /\ \E exc \in CreateFailures, msg \in ExcMessages :
          EnterFinally(except_result(exc, msg, content))
    /\ UNCHANGED <<argv, content, disk, created, temp_input, temp_output,
                   vd_state, result, run_outcome, proc_stderr, run_message, sub_calls,
                   stdout, stderr_out, exit_code>>
    /\ UNCHANGED fn_vars

\* subprocess.run was entered and ended with outcome
Invoked(outcome, text, msg) ==
    /\ sub_calls' = sub_calls + 1
    /\ run_outcome' = outcome
    /\ proc_stderr' = text
    /\ run_message' = msg
    /\ UNCHANGED <<argv, content, disk, created, temp_input, temp_output,
                   vd_state, result, stdout, stderr_out, exit_code>>
    /\ UNCHANGED fn_vars

\* subprocess.run returns a CompletedProcess
VdRunCompleted ==
    /\ pc = "run"
    /\ \E returncode \in ReturnCodes, text \in RendererStderr :
          /\ Invoked(IF returncode = 0 THEN "exit0" ELSE "exit_nonzero", text, <<>>)
          /\ EnterFinally(normal_result(returncode, text, content))

\* subprocess.TimeoutExpired after 10 seconds
VdRunTimeout ==
    /\ pc = "run"
    /\ Invoked("timeout", <<>>, <<>>)
    /\ EnterFinally(except_result("TimeoutExpired", <<>>, content))

\* FileNotFoundError: there is no npx executable
VdRunNotFound ==
    /\ pc = "run"
    /\ \E msg \in ExcMessages :
          /\ Invoked("not_found", <<>>, msg)
          /\ EnterFinally(except_result("FileNotFoundError", msg, content))

\* any other Exception from subprocess.run
VdRunOtherError ==
    /\ pc = "run"
    /\ \E msg \in ExcMessages :
          /\ Invoked("other", <<>>, msg)
          /\ EnterFinally(except_result("Exception", msg, content))

\* finally: if temp_input: Path(temp_input).unlink(missing_ok=True)
VdCleanupInput ==
    /\ pc = "finally_input"
    /\ disk' = IF temp_input # None THEN disk \ {temp_input} ELSE disk
    /\ pc' = "finally_output"
    /\ UNCHANGED <<argv, content, created, temp_input, temp_output, retval,
                   vd_state, result, run_outcome, proc_stderr, run_message, sub_calls,
                   stdout, stderr_out, exit_code>>
    /\ UNCHANGED fn_vars

\* unlink raises an OSError other than FileNotFoundError: it leaves the
\* finally block and replaces the pending return
VdCleanupInputFails ==
    /\ pc = "finally_input"
    /\ temp_input # None
    /\ vd_state' = "raised"
    /\ pc' = "uncaught"
    /\ UNCHANGED <<argv, content, disk, created, temp_input, temp_output,
                   retval, result, run_outcome, proc_stderr, run_message, sub_calls,
                   stdout, stderr_out, exit_code>>
    /\ UNCHANGED fn_vars

\* if temp_output: Path(temp_output).unlink(missing_ok=True); then the
\* pending return completes
VdCleanupOutput ==
    /\ pc = "finally_output"
    /\ disk' = IF temp_output # None THEN disk \ {temp_output} ELSE disk
    /\ result' = retval
    /\ vd_state' = "returned"
    /\ pc' = "print"
    /\ UNCHANGED <<argv, content, created, temp_input, temp_output, retval,
                   run_outcome, proc_stderr, run_message, sub_calls, stdout, stderr_out,
                   exit_code>>
    /\ UNCHANGED fn_vars

VdCleanupOutputFails ==
    /\ pc = "finally_output"
    /\ temp_output # None
    /\ vd_state' = "raised"
    /\ pc' = "uncaught"
    /\ UNCHANGED <<argv, content, disk, created, temp_input, temp_output,
                   retval, result, run_outcome, proc_stderr, run_message, sub_calls,
                   stdout, stderr_out, exit_code>>
    /\ UNCHANGED fn_vars

-----------------------------------------------------------------------------
(* main: after validate_diagram *)

\* print(json.dumps(result, indent=2)); sys.exit(1) or sys.exit(0)
MainPrint ==
    /\ pc = "print"
    /\ stdout' = Append(stdout, result)
    /\ exit_code' = IF ~result.valid THEN 1 ELSE 0
    /\ pc' = "done"
    /\ UNCHANGED <<argv, content, disk, created, temp_input, temp_output,
                   retval, vd_state, result, run_outcome, proc_stderr, run_message,
                   sub_calls, stderr_out>>
    /\ UNCHANGED fn_vars

\* an exception left validate_diagram: main has no handler, the interpreter
\* prints the traceback and exits with status 1
MainUncaught ==
    /\ pc = "uncaught"
    /\ stderr_out' = Append(stderr_out, [kind |-> "traceback", errors |-> <<>>])
    /\ exit_code' = 1
    /\ pc' = "done"
    /\ UNCHANGED <<argv, content, disk, created, temp_input, temp_output,
                   retval, vd_state, result, run_outcome, proc_stderr, run_message,
                   sub_calls, stdout>>
    /\ UNCHANGED fn_vars

Next ==
    \/ MainUsage
    \/ MainReadStdin
    \/ MainReadStdinRaises
    \/ MainReadFile
    \/ MainFileNotFound
    \/ MainFileUnreadable
    \/ VdEmpty
    \/ VdCreateInput
    \/ VdCreateInputFails
    \/ VdWriteInput
    \/ VdWriteInputFails
    \/ VdCloseInputFails
    \/ VdCreateOutput
    \/ VdCreateOutputFails
    \/ VdRunCompleted
    \/ VdRunTimeout
    \/ VdRunNotFound
    \/ VdRunOtherError
    \/ VdCleanupInput
    \/ VdCleanupInputFails
    \/ VdCleanupOutput
    \/ VdCleanupOutputFails
    \/ MainPrint
    \/ MainUncaught

Spec == Init /\ [][Next]_vars

-----------------------------------------------------------------------------
(* The two pure functions applied to bounded inputs *)

MainIdle ==
    /\ argv = "none"
    /\ content = <<>>
    /\ pc = "idle"
    /\ disk = {}
    /\ created = {}
    /\ temp_input = None
    /\ temp_output = None
    /\ retval = NoResult
    /\ vd_state = "not_called"
    /\ result = NoResult
    /\ run_outcome = "none"
    /\ proc_stderr = <<>>
    /\ run_message = <<>>
    /\ sub_calls = 0
    /\ stdout = <<>>
    /\ stderr_out = <<>>
    /\ exit_code = Running

\* all texts of 1..n lines drawn from the set lines
TextsOf(lines, n) ==
    UNION {{join(ls, "\n") : ls \in [1..k -> lines]} : k \in 1..n}

capitalize(s) == IF s = <<>> THEN s ELSE <<ToUpper(s[1])>> \o Tail(s)

\* every keyword of the table alone on a line, in three letter cases
KeywordLines ==
    UNION {{type_map[i].keyword,
            upper(type_map[i].keyword),
            capitalize(type_map[i].keyword)} : i \in 1..Len(type_map)}

DetectLines ==
    {<<>>,
     <<" ", "\t">>,
     <<"G", "r", "a", "p", "h", " ", "T", "D">>,
     <<"G", "R", "A", "P", "H", "-", "T", "D">>,
     <<"g", "r", "a", "p", "h", "t", "d">>,
     <<"p", "i", "e">>,
     <<"f", "o", "o">>,
     <<" ", "S", "t", "a", "t", "e", "-", "D", "i", "a", "g", "r", "a", "m", " ">>}

DetectInputs == {<<>>} \cup KeywordLines \cup TextsOf(DetectLines, MaxLines)

ErrLines ==
    {<<>>,
     <<"E", "r", "r", "o", "r", ":", " ", "b", "a", "d", " ", "t", "o", "k", "e", "n">>,
     <<" ", " ", "P", "a", "r", "s", "e", " ", "e", "r", "r", "o", "r", " ", "o", "n", " ", "l", "i", "n", "e", " ", "2", " ">>,
     <<"(", "e", "r", "r", "o", "r", ")", " ", "n", "o", "i", "s", "e">>,
     <<" ", " ", "(", "S", "y", "n", "t", "a", "x", ")">>,
     <<"a", "t", " ", "f", "o", "o", ".", "j", "s", ":", "1">>,
     <<"U", "N", "E", "X", "P", "E", "C", "T", "E", "D", " ", "e", "n", "d">>}

ParseInputs == TextsOf(ErrLines, MaxErrLines)

InitDetect ==
    /\ MainIdle
    /\ fn_pc = "detect"
    /\ det_content \in DetectInputs
    /\ det_type = "none"
    /\ err_stderr = <<>>
    /\ err_once = <<>>
    /\ err_twice = <<>>

Detect ==
    /\ fn_pc = "detect"
    /\ det_type' = detect_diagram_type(det_content)
    /\ fn_pc' = "detected"
    /\ UNCHANGED <<det_content, err_stderr, err_once, err_twice>>
    /\ UNCHANGED main_vars

NextDetect == Detect

SpecDetect == InitDetect /\ [][NextDetect]_vars

InitParse ==
    /\ MainIdle
    /\ fn_pc = "parse"
    /\ det_content = <<>>
    /\ det_type = "none"
    /\ err_stderr \in ParseInputs
    /\ err_once = <<>>
    /\ err_twice = <<>>

Parse ==
    /\ fn_pc = "parse"
    /\ err_once' = parse_mmdc_errors(err_stderr)
    /\ fn_pc' = "parsed"
    /\ UNCHANGED <<det_content, det_type, err_stderr, err_twice>>
    /\ UNCHANGED main_vars

\* the extractor applied to its own output, joined with newlines
Reparse ==
    /\ fn_pc = "parsed"
    /\ err_twice' = parse_mmdc_errors(join(err_once, "\n"))
    /\ fn_pc' = "reparsed"
    /\ UNCHANGED <<det_content, det_type, err_stderr, err_once>>
    /\ UNCHANGED main_vars

NextParse == Parse \/ Reparse

SpecParse == InitParse /\ [][NextParse]_vars

-----------------------------------------------------------------------------
(* Properties *)

Finished == exit_code # Running

AllWhitespace(s) == \A i \in 1..Len(s) : s[i] \in Whitespace

\* C1: when validate_diagram is over, no temporary file the call created is
\* left on disk, whichever step failed.  (Stated for the calls that return:
\* a call of this model raises only when a deletion failed, and C1 lists the
\* outcomes of the steps before the cleanup.)
C1_TempFilesRemoved ==
    vd_state = "returned" => created \cap disk = {}

\* C2: the exit code is 0 exactly when validate_diagram returned valid=true,
\* 1 exactly when it was called and returned valid=false, 2 exactly when no
\* validation was attempted; with exit code 2 nothing is on standard output
\* and the report is on standard error.
C2_ExitCodes ==
    Finished =>
      /\ exit_code = 0 <=> (vd_state = "returned" /\ result.valid)
      /\ exit_code = 1 <=> (vd_state = "returned" /\ ~result.valid)
      /\ exit_code = 2 <=> vd_state = "not_called"
      /\ exit_code = 2 => (stdout = <<>> /\ stderr_out # <<>>)

\* C3: when npx cannot be found or launched the process exits with code 2,
\* never with code 1.  (Stated for the runs in which validate_diagram
\* returned, so that the exit code is the one main chose.)
C3_ToolUnavailableExits2 ==
    (Finished /\ run_outcome = "not_found" /\ vd_state = "returned")
       => exit_code = 2

\* C4: validate_diagram never raises, whatever fails (temp-file creation,
\* the renderer invocation, the deletion of a temp file): it returns a
\* record with the four fields, and valid=false when something failed.
C4_NoFailureEscapes ==
    /\ vd_state # "raised"
    /\ vd_state = "returned" =>
         /\ DOMAIN result = {"valid", "errors", "warnings", "diagram_type"}
         /\ run_outcome # "exit0" => ~result.valid

\* C5: for empty or whitespace-only content validate_diagram returns exactly
\* the "Empty diagram content" record, creates no temporary file and
\* invokes no subprocess.
C5_EmptyContent ==
    (pc # "start" /\ AllWhitespace(content)) =>
      /\ created = {}
      /\ disk = {}
      /\ sub_calls = 0
      /\ vd_state \in {"not_called", "returned"}
      /\ vd_state = "returned" =>
           result = [valid |-> FALSE, errors |-> <<EmptyMsg>>,
                     warnings |-> <<>>, diagram_type |-> "unknown"]

C5_Witness ==
    /\ vd_state = "returned"
    /\ content = <<" ", "\t">>
    /\ result.errors = <<EmptyMsg>>

\* C6: for non-empty content whose renderer was invoked, the returned record
\* is fixed by the outcome of that one invocation: exit 0 gives valid with no
\* errors, another exit code gives the extracted error lines, a timeout, a
\* renderer that cannot be launched and any other failure give their fixed
\* messages; warnings is empty and diagram_type is the detector's result.
C6_ResultFromOutcome ==
    (run_outcome # "none" /\ vd_state = "returned") =>
      /\ sub_calls = 1
      /\ result.valid = (run_outcome = "exit0")
      /\ result.errors =
           CASE run_outcome = "exit0" -> <<>>
             [] run_outcome = "exit_nonzero" -> parse_mmdc_errors(proc_stderr)
             [] run_outcome = "timeout" -> <<TimeoutMsg>>
             [] run_outcome = "not_found" -> <<NpxMsg>>
             [] run_outcome = "other" -> <<ValidationErrorPrefix \o run_message>>
      /\ result.warnings = <<>>
      /\ result.diagram_type = detect_diagram_type(content)

C6_Witness ==
    /\ vd_state = "returned"
    /\ run_outcome = "exit_nonzero"
    /\ Len(result.errors) = 1
    /\ result.errors # <<FallbackMsg>>
    /\ result.diagram_type = "flowchart"

\* lines of a text, and its first line that is not blank
LinesOf(text) == split(text, "\n")

FirstNonEmptyLine(text) ==
    LET lines == LinesOf(text)
        nonblank == {i \in 1..Len(lines) : ~AllWhitespace(lines[i])}
    IN  IF nonblank = {} THEN <<>>
        ELSE lines[CHOOSE i \in nonblank : \A j \in nonblank : i <= j]

\* C7: a diagram whose first non-empty line is a keyword of the table, in
\* any letter case, is classified as that keyword's type.
C7_EveryKeywordClassified ==
    fn_pc = "detected" =>
      \A i \in 1..Len(type_map) :
         lower(FirstNonEmptyLine(det_content)) = type_map[i].keyword
            => det_type = type_map[i].diagram_type

Normalized(line) == SelectSeq(lower(line), LAMBDA c : c \notin {" ", "-"})

FirstMatch(line) ==
    LET hits == {i \in 1..Len(type_map) : contains(type_map[i].keyword, line)}
    IN  IF hits = {} THEN "unknown"
        ELSE type_map[CHOOSE i \in hits : \A j \in hits : i <= j].diagram_type

\* C8: the detected type is the type of the first table entry whose keyword
\* occurs in the first non-empty line, lowercased and with spaces and
\* hyphens removed, or "unknown"; blank lines before it and lines after it
\* do not matter.
C8_FirstNonEmptyLineOnly ==
    fn_pc = "detected" =>
      det_type = FirstMatch(Normalized(FirstNonEmptyLine(det_content)))

C8_Witness ==
    /\ fn_pc = "detected"
    /\ det_content = <<" ", "\t", "\n",
                       "G", "R", "A", "P", "H", "-", "T", "D", "\n",
                       "p", "i", "e">>
    /\ det_type = "flowchart"

ErrorWords ==
    {<<"e", "r", "r", "o", "r">>,
     <<"p", "a", "r", "s", "e">>,
     <<"s", "y", "n", "t", "a", "x">>,
     <<"i", "n", "v", "a", "l", "i", "d">>,
     <<"u", "n", "e", "x", "p", "e", "c", "t", "e", "d">>}

Qualifies(trimmed) ==
    /\ \E w \in ErrorWords : contains(w, lower(trimmed))
    /\ ~(trimmed # <<>> /\ trimmed[1] = "(")

QualifyingLines(text) ==
    LET lines == LinesOf(text)
    IN  SelectSeq([i \in 1..Len(lines) |-> strip(lines[i])], Qualifies)

\* C9: the extractor returns, in input order, exactly the trimmed lines that
\* contain one of the five words (case-insensitively) and do not start with
\* "("; no returned line starts with "("; with no such line it returns
\* exactly the fallback, so the result is never empty.
C9_ExactlyQualifyingLines ==
    fn_pc \in {"parsed", "reparsed"} =>
      /\ err_once = IF QualifyingLines(err_stderr) = <<>>
                    THEN <<FallbackMsg>>
                    ELSE QualifyingLines(err_stderr)
      /\ err_once # <<>>
      /\ \A i \in 1..Len(err_once) : ~startswith(err_once[i], "(")

C9_Witness ==
    /\ fn_pc = "parsed"
    /\ err_stderr =
         <<" ", " ", "(", "S", "y", "n", "t", "a", "x", ")", "\n",
           " ", " ", "P", "a", "r", "s", "e", " ", "e", "r", "r", "o", "r", " ", "o", "n", " ", "l", "i", "n", "e", " ", "2", " ">>
    /\ err_once = <<<<"P", "a", "r", "s", "e", " ", "e", "r", "r", "o", "r", " ", "o", "n", " ", "l", "i", "n", "e", " ", "2">>>>

\* C10: extracting again from the extracted lines, joined with newlines,
\* returns the same list, also when the first extraction gave the fallback.
C10_Idempotent ==
    fn_pc = "reparsed" => err_twice = err_once

C10_Witness ==
    /\ fn_pc = "reparsed"
    /\ err_once = <<FallbackMsg>>
    /\ err_twice = <<FallbackMsg>>
    /\ err_stderr # <<>>

====
